---- MODULE Spec2Model ----
(***************************************************************************)
(* Lock-free ring buffer with an SPSC and an MPSC implementation           *)
(* (ring_buf.hpp, spsc.cpp, mpsc.cpp).                                     *)
(*                                                                         *)
(* Every shared-memory access of write() and read() is one step.  A        *)
(* std::memcpy of a versioned_DataType is modelled as one step per word    *)
(* (the payload words, then the sequence-number word, in ascending address *)
(* order), so that the producer's and the consumer's copies of a slot      *)
(* interleave.  The actions of write() and read() leave `hist` free: a     *)
(* specification joins each with the bookkeeping of the history.           *)
(* Words are WordBits wide; all unsigned arithmetic is modulo 2^WordBits.  *)
(***************************************************************************)
EXTENDS Integers, Sequences, FiniteSets, TLC

\* ------------------------------------------------------------------ bounds
MaxLength == 2          \* largest template parameter `length` explored
MaxLengthWide == 4      \* largest `length` explored with several slots per region
NumProducers == 2       \* producer threads of the MPSC buffer
MaxWritesSpsc == 3      \* write() calls per behaviour of the SPSC buffer
MaxWritesMpsc == 2      \* write() calls per behaviour of the MPSC buffer
MaxReads == 3           \* read() calls per behaviour
MaxReadsFair == 1       \* read() calls per behaviour of the MPSC buffer under fairness
PayloadWords == 2       \* words of DataType
MaxVal == 2             \* number of distinct payloads passed to write()
WordBits == 3           \* width of the unsigned words (uint64_t in the source)

Mod == 2 ^ WordBits
HalfMod == 2 ^ (WordBits - 1)

\* version_number_ptr = nullptr (mpsc.cpp line 18)
nullptr == -1

\* ----------------------------------------------------------- pure helpers
RECURSIVE BitAnd(_, _)
\* a & b on naturals
BitAnd(a, b) ==
  IF a = 0 \/ b = 0 THEN 0
  ELSE (IF a % 2 = 1 /\ b % 2 = 1 THEN 1 ELSE 0) + 2 * BitAnd(a \div 2, b \div 2)

\* the static_asserts of RingBuf (ring_buf.hpp lines 17-19)
ValidParams(len, g) ==
  /\ len # 0 /\ BitAnd(len, len - 1) = 0
  /\ g # 0 /\ BitAnd(g, g - 1) = 0
  /\ BitAnd(len, g - 1) = 0

\* versioned_DataType as an array of words: the payload, then sequence_number
EntryWords == PayloadWords + 1
SeqWord == PayloadWords + 1
AllWords == 1 .. EntryWords
\* the payloads passed to write(): DataType is copied as opaque words, so
\* payloads whose words are all equal suffice to tell a whole record from a mix
Payloads == {[k \in 1 .. PayloadWords |-> v] : v \in 1 .. MaxVal}
ZeroData == [k \in 1 .. PayloadWords |-> 0]
\* every value a DataType copied out of a slot can have
DataValues == [1 .. PayloadWords -> 0 .. MaxVal]
MakeEntry(d, s) == [k \in AllWords |-> IF k = SeqWord THEN s ELSE d[k]]
DataOf(e) == [k \in 1 .. PayloadWords |-> e[k]]
SeqOf(e) == e[SeqWord]

\* success computed by comparing the two words as unsigned integers
SuccessBitCompare(r, s) == IF s > r THEN 1 ELSE 0

\* (uint64_t)(read_sequence_number - entry.sequence_number) >> 63
SuccessBit(r, s) == ((r - s) % Mod) \div HalfMod

\* fetch_add(1) / fetch_sub(1) / ++ on an unsigned word
Inc(v) == (v + 1) % Mod
Dec(v) == (v - 1) % Mod

Producers == 1 .. NumProducers

VARIABLES
  discipline,             \* "SPSC" (spsc.cpp) or "MPSC" (mpsc.cpp)
  length,                 \* template parameter length
  version_granularity,    \* template parameter version_granularity
  version_numbers,        \* version_numbers[i].number
  buf,                    \* buf[i], an array of words
  write_sequence_number,  \* prod_u (either member of the union)
  read_sequence_number,   \* read_sequence_number
  prod,                   \* per producer thread: position in write() and its locals
  cons,                   \* the consumer thread: position in read() and its locals
  hist                    \* history of the calls made (observation only)

vars == <<discipline, length, version_granularity, version_numbers, buf,
          write_sequence_number, read_sequence_number, prod, cons>>

params == <<discipline, length, version_granularity>>

\* ----------------------------------------------------------------- Init
IdleProd ==
  [pc |-> "idle", data |-> ZeroData, version_idx |-> 0, write_guard |-> 0,
   local_sequence_number |-> 0, version_number_ptr |-> nullptr,
   entry |-> MakeEntry(ZeroData, 0), todo |-> {}]

IdleCons ==
  [pc |-> "idle", version_idx |-> 0, entry |-> MakeEntry(ZeroData, 0),
   todo |-> {}, ret_data |-> ZeroData, success |-> 0]

NoRead ==
  [r |-> 0,            \* the consumer cursor at the call
   nw |-> 0,           \* the number of write() calls made before the call
   quiet |-> FALSE,    \* no write() call was in progress at the call
   pre |-> FALSE,      \* the write() assigned sequence number r + 1 had returned
   seq |-> 0,          \* the sequence number of the entry the call copied
   returned |-> FALSE]

InitHist ==
  [writes |-> <<>>,   \* payload of every write() call, in call order
   seqs |-> <<>>,     \* seqs[s]: the call that was assigned sequence number s
   done |-> {},       \* the calls that have returned
   call |-> [p \in Producers |-> 0],  \* the call each producer is in
   nreads |-> 0,      \* number of read() calls made
   mixed |-> FALSE,   \* some write() call overlapped or followed a read() call
   overrun |-> FALSE, \* the producers got more than `length` records ahead
   last |-> NoRead,   \* the latest read() call
   delivered |-> [d \in DataValues |-> 0]]  \* data of the successful reads, as a bag

\* RingBuf::RingBuf()
InitBuf(d) ==
  /\ discipline = d
  /\ length \in 1 .. MaxLength
  /\ version_granularity \in 1 .. MaxLength
  /\ ValidParams(length, version_granularity)
  /\ write_sequence_number = 0
  /\ read_sequence_number = 0
  /\ version_numbers = [i \in 0 .. version_granularity - 1 |-> 0]
  /\ buf = [i \in 0 .. length - 1 |-> MakeEntry(ZeroData, 0)]
  /\ prod = [p \in Producers |-> IdleProd]
  /\ cons = IdleCons
  /\ hist = InitHist

InitSPSC == InitBuf("SPSC")
InitMPSC == InitBuf("MPSC")
Init == InitSPSC \/ InitMPSC

\* ------------------------------------------------------- history helpers
NumCalls == Len(hist.writes)
NumReads == hist.nreads
\* no write() call is in progress
Quiet == \A p \in Producers : prod[p].pc = "idle"

HistWriteCall(p, d) ==
  [hist EXCEPT !.writes = Append(@, d),
               !.call[p] = NumCalls + 1,
               !.mixed = @ \/ hist.nreads > 0]
HistClaim(p) ==
  [hist EXCEPT !.seqs = Append(@, hist.call[p]),
               !.overrun = @ \/ write_sequence_number + 1 > read_sequence_number + length]
HistWriteReturn(p) == [hist EXCEPT !.done = @ \cup {hist.call[p]}, !.call[p] = 0]
HistReadCall ==
  [hist EXCEPT
     !.nreads = @ + 1,
     !.mixed = @ \/ ~Quiet,
     !.last = [NoRead EXCEPT
        !.r = read_sequence_number,
        !.nw = NumCalls,
        !.quiet = Quiet,
        !.pre = /\ read_sequence_number + 1 <= Len(hist.seqs)
                /\ hist.seqs[read_sequence_number + 1] \in hist.done]]
HistReadReturn ==
  [hist EXCEPT
     !.last = [@ EXCEPT !.seq = SeqOf(cons.entry), !.returned = TRUE],
     !.delivered = IF cons'.success # 0
                   THEN [@ EXCEPT ![cons'.ret_data] = @ + 1] ELSE @]

\* ------------------------------------------------------------ SPSC write
\* spsc.cpp lines 15-25: the call, version_idx, the first fetch_add
SpscWriteBegin(d) ==
  /\ discipline = "SPSC"
  /\ prod[1].pc = "idle"
  /\ LET idx == BitAnd(write_sequence_number, version_granularity - 1) IN
       /\ prod' = [prod EXCEPT ![1] =
            [@ EXCEPT !.pc = "entry", !.data = d, !.version_idx = idx,
                      !.write_guard = version_numbers[idx]]]
       /\ version_numbers' = [version_numbers EXCEPT ![idx] = Inc(@)]
  /\ UNCHANGED <<params, buf, write_sequence_number, read_sequence_number, cons>>

\* `if (write_guard)` of spsc.cpp line 30 and mpsc.cpp line 86
GuardTaken(g) == g # 0

\* prod_u.write_sequence_number++: the entry carries the old cursor
EntrySequencePost(w) == w

\* the sequence number of the entry: ++prod_u.write_sequence_number (spsc.cpp
\* line 29), local_sequence_number + 1 (mpsc.cpp line 85)
EntrySequence(w) == Inc(w)

\* the entry built from write_sequence_number + 1, the cursor left as it was
SpscWriteEntryNoAdvance ==
  /\ discipline = "SPSC"
  /\ prod[1].pc = "entry"
  /\ prod' = [prod EXCEPT ![1] =
       [@ EXCEPT !.local_sequence_number = write_sequence_number,
                 !.entry = MakeEntry(prod[1].data, EntrySequence(write_sequence_number)),
                 !.pc = IF GuardTaken(prod[1].write_guard) THEN "memcpy" ELSE "release",
                 !.todo = IF GuardTaken(prod[1].write_guard) THEN AllWords ELSE {}]]
  /\ UNCHANGED <<params, version_numbers, buf, write_sequence_number,
                 read_sequence_number, cons>>

\* spsc.cpp lines 28-30: the entry, ++write_sequence_number, the guard
SpscWriteEntry ==
  /\ discipline = "SPSC"
  /\ prod[1].pc = "entry"
  /\ write_sequence_number' = Inc(write_sequence_number)
  /\ prod' = [prod EXCEPT ![1] =
       [@ EXCEPT !.local_sequence_number = write_sequence_number,
                 !.entry = MakeEntry(prod[1].data, EntrySequence(write_sequence_number)),
                 !.pc = IF GuardTaken(prod[1].write_guard) THEN "memcpy" ELSE "release",
                 !.todo = IF GuardTaken(prod[1].write_guard) THEN AllWords ELSE {}]]
  /\ UNCHANGED <<params, version_numbers, buf, read_sequence_number, cons>>

\* the word std::memcpy copies next: the lowest address not yet copied
NextWord(todo) == CHOOSE k \in todo : \A j \in todo : k <= j

\* the memcpy into the slot indexed by the entry's sequence number, which is
\* one more than the cursor the entry was assigned
StoreWordAtSequence(p, k) ==
  LET slot == BitAnd(SeqOf(prod[p].entry), length - 1) IN
    /\ buf' = [buf EXCEPT ![slot][k] = prod[p].entry[k]]
    /\ prod' = [prod EXCEPT ![p] =
         [@ EXCEPT !.todo = @ \ {k},
                   !.pc = IF prod[p].todo = {k} THEN "release" ELSE "memcpy"]]

\* one word of the memcpy into buf[seq & (length - 1)]
StoreWord(p, k) ==
  LET slot == BitAnd(prod[p].local_sequence_number, length - 1) IN
    /\ buf' = [buf EXCEPT ![slot][k] = prod[p].entry[k]]
    /\ prod' = [prod EXCEPT ![p] =
         [@ EXCEPT !.todo = @ \ {k},
                   !.pc = IF prod[p].todo = {k} THEN "release" ELSE "memcpy"]]

\* spsc.cpp line 30: std::memcpy(&buf[...], &entry, sizeof(versioned_DataType))
SpscWriteMemcpy ==
  /\ discipline = "SPSC"
  /\ prod[1].pc = "memcpy"
  /\ StoreWord(1, NextWord(prod[1].todo))
  /\ UNCHANGED <<params, version_numbers, write_sequence_number,
                 read_sequence_number, cons>>

\* the second fetch_add applied to the counter of the region recomputed from
\* the cursor, which line 29 has already advanced
SpscWriteReleaseRecomputed ==
  /\ discipline = "SPSC"
  /\ prod[1].pc = "release"
  /\ version_numbers' = [version_numbers EXCEPT
        ![BitAnd(write_sequence_number, version_granularity - 1)] = Inc(@)]
  /\ prod' = [prod EXCEPT ![1] = IdleProd]
  /\ UNCHANGED <<params, buf, write_sequence_number, read_sequence_number, cons>>

\* spsc.cpp lines 32-33: the second fetch_add, return
SpscWriteRelease ==
  /\ discipline = "SPSC"
  /\ prod[1].pc = "release"
  /\ version_numbers' = [version_numbers EXCEPT ![prod[1].version_idx] = Inc(@)]
  /\ prod' = [prod EXCEPT ![1] = IdleProd]
  /\ UNCHANGED <<params, buf, write_sequence_number, read_sequence_number, cons>>

\* ------------------------------------------------------------- SPSC read
\* lines 36-40 of spsc.cpp, lines 92-97 of mpsc.cpp: the call, version_idx;
\* ret_data points to a buffer of the caller, zeroed before the call
ReadBegin ==
  /\ cons.pc = "idle"
  /\ cons' = [IdleCons EXCEPT
                 !.pc = "memcpy",
                 !.version_idx = BitAnd(read_sequence_number, version_granularity - 1),
                 !.todo = AllWords]
  /\ UNCHANGED <<params, version_numbers, buf, write_sequence_number,
                 read_sequence_number, prod>>

\* one word of the memcpy out of buf[read_sequence_number & (length - 1)]
LoadWord(k) ==
  LET slot == BitAnd(read_sequence_number, length - 1) IN
    cons' = [cons EXCEPT !.entry[k] = buf[slot][k],
                         !.todo = @ \ {k},
                         !.pc = IF cons.todo = {k} THEN "check" ELSE "memcpy"]

ReadMemcpy ==
  /\ cons.pc = "memcpy"
  /\ LoadWord(NextWord(cons.todo))
  /\ UNCHANGED <<params, version_numbers, buf, write_sequence_number,
                 read_sequence_number, prod>>

SpscReadBegin == discipline = "SPSC" /\ ReadBegin

\* spsc.cpp line 43
SpscReadMemcpy == discipline = "SPSC" /\ ReadMemcpy

\* the refcount test of the MPSC read() used on the parity counter
SpscMidWriteNonZero(v) == v # 0

\* the loop condition of spsc.cpp line 46
SpscMidWrite(v) == BitAnd(v, 1) # 0

\* spsc.cpp lines 44-46: the fences and the load of the version number
SpscReadCheck ==
  /\ discipline = "SPSC"
  /\ cons.pc = "check"
  /\ cons' = IF SpscMidWrite(version_numbers[cons.version_idx])
             THEN [cons EXCEPT !.pc = "memcpy", !.todo = AllWords]
             ELSE [cons EXCEPT !.pc = "return"]
  /\ UNCHANGED <<params, version_numbers, buf, write_sequence_number,
                 read_sequence_number, prod>>

\* read_sequence_number++ whatever the success bit
AdvanceCursorAlways(r, s) == (r + 1) % Mod

\* the cursor after `read_sequence_number += success`
AdvanceCursor(r, s) == (r + s) % Mod

\* a read() that marks the slot it delivered as consumed (sequence number 0)
SpscReadReturnConsume ==
  /\ discipline = "SPSC"
  /\ cons.pc = "return"
  /\ LET s == SuccessBit(read_sequence_number, SeqOf(cons.entry))
         out == IF s # 0 THEN DataOf(cons.entry) ELSE cons.ret_data
         slot == BitAnd(read_sequence_number, length - 1) IN
       /\ read_sequence_number' = AdvanceCursor(read_sequence_number, s)
       /\ cons' = [IdleCons EXCEPT !.success = s, !.ret_data = out]
       /\ buf' = IF s # 0 THEN [buf EXCEPT ![slot][SeqWord] = 0] ELSE buf
       /\ UNCHANGED <<params, version_numbers, write_sequence_number, prod>>

\* spsc.cpp lines 48-51: success, the conditional copy to the caller, return
SpscReadReturn ==
  /\ discipline = "SPSC"
  /\ cons.pc = "return"
  /\ LET s == SuccessBit(read_sequence_number, SeqOf(cons.entry))
         out == IF s # 0 THEN DataOf(cons.entry) ELSE cons.ret_data IN
       /\ read_sequence_number' = AdvanceCursor(read_sequence_number, s)
       /\ cons' = [IdleCons EXCEPT !.success = s, !.ret_data = out]
       /\ UNCHANGED <<params, version_numbers, buf, write_sequence_number, prod>>

\* ------------------------------------------------------------ MPSC write
\* mpsc.cpp lines 15-19: the call and the initial values of its locals
MpscWriteCall(p, d) ==
  /\ discipline = "MPSC"
  /\ prod[p].pc = "idle"
  /\ prod' = [prod EXCEPT ![p] =
       [IdleProd EXCEPT !.pc = "load", !.data = d]]
  /\ UNCHANGED <<params, version_numbers, buf, write_sequence_number,
                 read_sequence_number, cons>>

\* a retry that claims the new region without correcting the counter it held
MpscWriteLoadNoCorrection(p) ==
  /\ discipline = "MPSC"
  /\ prod[p].pc = "load"
  /\ LET idx == BitAnd(write_sequence_number, version_granularity - 1) IN
       prod' = [prod EXCEPT ![p] =
         [@ EXCEPT !.local_sequence_number = write_sequence_number,
                   !.version_idx = idx,
                   !.pc = IF idx = prod[p].version_number_ptr THEN "cas"
                          ELSE "fetch_add"]]
  /\ UNCHANGED <<params, version_numbers, buf, write_sequence_number,
                 read_sequence_number, cons>>

\* mpsc.cpp lines 69-73: load the cursor, version_idx, compare the pointers
MpscWriteLoad(p) ==
  /\ discipline = "MPSC"
  /\ prod[p].pc = "load"
  /\ LET idx == BitAnd(write_sequence_number, version_granularity - 1) IN
       prod' = [prod EXCEPT ![p] =
         [@ EXCEPT !.local_sequence_number = write_sequence_number,
                   !.version_idx = idx,
                   !.pc = IF idx = prod[p].version_number_ptr THEN "cas"
                          ELSE IF prod[p].version_number_ptr # nullptr THEN "fetch_sub"
                          ELSE "fetch_add"]]
  /\ UNCHANGED <<params, version_numbers, buf, write_sequence_number,
                 read_sequence_number, cons>>

\* the correcting decrement applied to the counter of the new region
MpscWriteFetchSubNew(p) ==
  /\ discipline = "MPSC"
  /\ prod[p].pc = "fetch_sub"
  /\ version_numbers' = [version_numbers EXCEPT ![prod[p].version_idx] = Dec(@)]
  /\ prod' = [prod EXCEPT ![p] = [@ EXCEPT !.pc = "fetch_add"]]
  /\ UNCHANGED <<params, buf, write_sequence_number, read_sequence_number, cons>>

\* mpsc.cpp line 74: version_number_ptr->fetch_sub(1)
MpscWriteFetchSub(p) ==
  /\ discipline = "MPSC"
  /\ prod[p].pc = "fetch_sub"
  /\ version_numbers' = [version_numbers EXCEPT ![prod[p].version_number_ptr] = Dec(@)]
  /\ prod' = [prod EXCEPT ![p] = [@ EXCEPT !.pc = "fetch_add"]]
  /\ UNCHANGED <<params, buf, write_sequence_number, read_sequence_number, cons>>

\* mpsc.cpp lines 75-76: write_guard = next_version_number_ptr->fetch_add(1)
MpscWriteFetchAdd(p) ==
  /\ discipline = "MPSC"
  /\ prod[p].pc = "fetch_add"
  /\ version_numbers' = [version_numbers EXCEPT ![prod[p].version_idx] = Inc(@)]
  /\ prod' = [prod EXCEPT ![p] =
       [@ EXCEPT !.write_guard = version_numbers[prod[p].version_idx],
                 !.version_number_ptr = prod[p].version_idx,
                 !.pc = "cas"]]
  /\ UNCHANGED <<params, buf, write_sequence_number, read_sequence_number, cons>>

\* the cursor advanced by a plain store of local_sequence_number + 1, without
\* comparing it with the value loaded
MpscWriteCasBlind(p) ==
  /\ discipline = "MPSC"
  /\ prod[p].pc = "cas"
  /\ write_sequence_number' = Inc(prod[p].local_sequence_number)
  /\ prod' = [prod EXCEPT ![p] =
       [@ EXCEPT !.entry = MakeEntry(prod[p].data, EntrySequence(prod[p].local_sequence_number)),
                 !.pc = IF GuardTaken(prod[p].write_guard) THEN "memcpy" ELSE "release",
                 !.todo = IF GuardTaken(prod[p].write_guard) THEN AllWords ELSE {}]]
  /\ UNCHANGED <<params, version_numbers, buf, read_sequence_number, cons>>

\* mpsc.cpp lines 78-86: compare_exchange_weak finds the cursor equal to
\* local_sequence_number and advances it; the entry and the guard follow
MpscWriteCasSuccess(p) ==
  /\ discipline = "MPSC"
  /\ prod[p].pc = "cas"
  /\ write_sequence_number = prod[p].local_sequence_number
  /\ write_sequence_number' = Inc(write_sequence_number)
  /\ prod' = [prod EXCEPT ![p] =
       [@ EXCEPT !.entry = MakeEntry(prod[p].data, EntrySequence(prod[p].local_sequence_number)),
                 !.pc = IF GuardTaken(prod[p].write_guard) THEN "memcpy" ELSE "release",
                 !.todo = IF GuardTaken(prod[p].write_guard) THEN AllWords ELSE {}]]
  /\ UNCHANGED <<params, version_numbers, buf, read_sequence_number, cons>>

\* a failed CAS retried with the stale expected value, the cursor not reloaded
MpscWriteCasFailStale(p) ==
  /\ discipline = "MPSC"
  /\ prod[p].pc = "cas"
  /\ write_sequence_number # prod[p].local_sequence_number
  /\ UNCHANGED <<params, version_numbers, buf, write_sequence_number,
                 read_sequence_number, prod, cons>>

\* mpsc.cpp lines 78-83: compare_exchange_weak fails because the cursor differs
MpscWriteCasFail(p) ==
  /\ discipline = "MPSC"
  /\ prod[p].pc = "cas"
  /\ write_sequence_number # prod[p].local_sequence_number
  /\ prod' = [prod EXCEPT ![p] =
       [@ EXCEPT !.local_sequence_number = write_sequence_number, !.pc = "load"]]
  /\ UNCHANGED <<params, version_numbers, buf, write_sequence_number,
                 read_sequence_number, cons>>

\* mpsc.cpp line 78: compare_exchange_weak may fail although the cursor is equal
MpscWriteCasSpurious(p) ==
  /\ discipline = "MPSC"
  /\ prod[p].pc = "cas"
  /\ write_sequence_number = prod[p].local_sequence_number
  /\ prod' = [prod EXCEPT ![p] = [@ EXCEPT !.pc = "load"]]
  /\ UNCHANGED <<params, version_numbers, buf, write_sequence_number,
                 read_sequence_number, cons>>

\* mpsc.cpp line 86: std::memcpy(&buf[...], &entry, sizeof(versioned_DataType))
MpscWriteMemcpy(p) ==
  /\ discipline = "MPSC"
  /\ prod[p].pc = "memcpy"
  /\ StoreWord(p, NextWord(prod[p].todo))
  /\ UNCHANGED <<params, version_numbers, write_sequence_number,
                 read_sequence_number, cons>>

\* mpsc.cpp lines 88-89: version_number_ptr->fetch_sub(1), return
MpscWriteRelease(p) ==
  /\ discipline = "MPSC"
  /\ prod[p].pc = "release"
  /\ version_numbers' = [version_numbers EXCEPT ![prod[p].version_number_ptr] = Dec(@)]
  /\ prod' = [prod EXCEPT ![p] = IdleProd]
  /\ UNCHANGED <<params, buf, write_sequence_number, read_sequence_number, cons>>

\* ------------------------------------------------------------- MPSC read
MpscReadBegin == discipline = "MPSC" /\ ReadBegin

\* mpsc.cpp line 99
MpscReadMemcpy == discipline = "MPSC" /\ ReadMemcpy

\* the loop condition of mpsc.cpp line 100
MpscMidWrite(v) == v # 0

\* mpsc.cpp line 100: the load of the version number
MpscReadCheck ==
  /\ discipline = "MPSC"
  /\ cons.pc = "check"
  /\ cons' = IF MpscMidWrite(version_numbers[cons.version_idx])
             THEN [cons EXCEPT !.pc = "memcpy", !.todo = AllWords]
             ELSE [cons EXCEPT !.pc = "return"]
  /\ UNCHANGED <<params, version_numbers, buf, write_sequence_number,
                 read_sequence_number, prod>>

\* mpsc.cpp lines 102-105: the copy to the caller, success, return
MpscReadReturn ==
  /\ discipline = "MPSC"
  /\ cons.pc = "return"
  /\ LET s == SuccessBit(read_sequence_number, SeqOf(cons.entry))
         out == DataOf(cons.entry) IN
       /\ read_sequence_number' = AdvanceCursor(read_sequence_number, s)
       /\ cons' = [IdleCons EXCEPT !.success = s, !.ret_data = out]
       /\ UNCHANGED <<params, version_numbers, buf, write_sequence_number, prod>>

\* ------------------------------------------------------- specifications
\* the steps of the SPSC producer inside write()
SpscProducerStep == SpscWriteEntry \/ SpscWriteMemcpy \/ SpscWriteRelease
\* the steps of the consumer inside read()
SpscConsumerStep == SpscReadMemcpy \/ SpscReadCheck \/ SpscReadReturn

NextSPSC ==
  \/ \E d \in Payloads :
       NumCalls < MaxWritesSpsc /\ SpscWriteBegin(d) /\ hist' = HistWriteCall(1, d)
  \/ SpscWriteEntry /\ hist' = HistClaim(1)
  \/ SpscWriteMemcpy /\ UNCHANGED hist
  \/ SpscWriteRelease /\ hist' = HistWriteReturn(1)
  \/ NumReads < MaxReads /\ SpscReadBegin /\ hist' = HistReadCall
  \/ SpscReadMemcpy /\ UNCHANGED hist
  \/ SpscReadCheck /\ UNCHANGED hist
  \/ SpscReadReturn /\ hist' = HistReadReturn

SpecSPSC == InitSPSC /\ [][NextSPSC]_vars

\* the steps of producer p inside write(), a spurious CAS failure excepted
MpscProducerStep(p) ==
  \/ MpscWriteLoad(p) \/ MpscWriteFetchSub(p) \/ MpscWriteFetchAdd(p)
  \/ MpscWriteCasSuccess(p) \/ MpscWriteCasFail(p)
  \/ MpscWriteMemcpy(p) \/ MpscWriteRelease(p)
MpscConsumerStep == MpscReadMemcpy \/ MpscReadCheck \/ MpscReadReturn

NextMpscWith(maxReads) ==
  \/ \E p \in Producers, d \in Payloads :
       NumCalls < MaxWritesMpsc /\ MpscWriteCall(p, d) /\ hist' = HistWriteCall(p, d)
  \/ \E p \in Producers : MpscWriteLoad(p) /\ UNCHANGED hist
  \/ \E p \in Producers : MpscWriteFetchSub(p) /\ UNCHANGED hist
  \/ \E p \in Producers : MpscWriteFetchAdd(p) /\ UNCHANGED hist
  \/ \E p \in Producers : MpscWriteCasSuccess(p) /\ hist' = HistClaim(p)
  \/ \E p \in Producers : MpscWriteCasFail(p) /\ UNCHANGED hist
  \/ \E p \in Producers : MpscWriteCasSpurious(p) /\ UNCHANGED hist
  \/ \E p \in Producers : MpscWriteMemcpy(p) /\ UNCHANGED hist
  \/ \E p \in Producers : MpscWriteRelease(p) /\ hist' = HistWriteReturn(p)
  \/ NumReads < maxReads /\ MpscReadBegin /\ hist' = HistReadCall
  \/ MpscReadMemcpy /\ UNCHANGED hist
  \/ MpscReadCheck /\ UNCHANGED hist
  \/ MpscReadReturn /\ hist' = HistReadReturn

NextMPSC == NextMpscWith(MaxReads)

SpecMPSC == InitMPSC /\ [][NextMPSC]_vars

\* both disciplines
Next == NextSPSC \/ NextMPSC

Spec == Init /\ [][Next]_vars

\* The SPSC threads calling write() and read() without end, every write() with
\* the same payload (no step of write() or read() depends on the payload); the
\* history is not kept.
LivePayload == [k \in 1 .. PayloadWords |-> 1]

NextLiveSPSC ==
  /\ \/ SpscWriteBegin(LivePayload)
     \/ SpscProducerStep
     \/ SpscReadBegin
     \/ SpscConsumerStep
  /\ UNCHANGED hist

\* Every producer inside write() is scheduled again (weak fairness of its steps),
\* and a compare_exchange_weak that could succeed does not fail spuriously for
\* ever.  Whether write() is called again is up to the caller.
ProducerFairness ==
  /\ WF_vars(SpscProducerStep)
  /\ \A p \in Producers : WF_vars(MpscProducerStep(p))
  /\ \A p \in Producers : SF_vars(MpscWriteCasSuccess(p))

\* The consumer inside read() is scheduled again.
ConsumerFairness ==
  /\ WF_vars(SpscConsumerStep)
  /\ WF_vars(MpscConsumerStep)

NextFairMPSC == NextMpscWith(MaxReadsFair)

\* the MPSC buffer with fairly scheduled producers, whatever the consumer does
FairSpecMPSC == InitMPSC /\ [][NextFairMPSC]_vars /\ ProducerFairness

\* every thread fairly scheduled; the SPSC producer calls write() without end
LiveSpec ==
  /\ Init
  /\ [][NextLiveSPSC \/ NextFairMPSC]_vars
  /\ ProducerFairness
  /\ ConsumerFairness

\* RingBuf::RingBuf() for the lengths above MaxLength, where a version counter
\* can guard several slots
InitWide ==
  /\ discipline \in {"SPSC", "MPSC"}
  /\ length \in MaxLength + 1 .. MaxLengthWide
  /\ version_granularity \in 1 .. MaxLengthWide
  /\ ValidParams(length, version_granularity)
  /\ write_sequence_number = 0
  /\ read_sequence_number = 0
  /\ version_numbers = [i \in 0 .. version_granularity - 1 |-> 0]
  /\ buf = [i \in 0 .. length - 1 |-> MakeEntry(ZeroData, 0)]
  /\ prod = [p \in Producers |-> IdleProd]
  /\ cons = IdleCons
  /\ hist = InitHist

SpecWide == InitWide /\ [][Next]_vars

\* read() at its last statements (spsc.cpp lines 48-51, mpsc.cpp lines
\* 102-105) for every value of the consumer cursor and of the sequence number
\* of the entry it copied
InitSuccess ==
  /\ discipline \in {"SPSC", "MPSC"}
  /\ length \in 1 .. MaxLength
  /\ version_granularity \in 1 .. MaxLength
  /\ ValidParams(length, version_granularity)
  /\ write_sequence_number = 0
  /\ read_sequence_number \in 0 .. Mod - 1
  /\ version_numbers = [i \in 0 .. version_granularity - 1 |-> 0]
  /\ buf = [i \in 0 .. length - 1 |-> MakeEntry(ZeroData, 0)]
  /\ prod = [p \in Producers |-> IdleProd]
  /\ \E d \in Payloads, s \in 0 .. Mod - 1 :
       cons = [IdleCons EXCEPT !.pc = "return", !.entry = MakeEntry(d, s)]
  /\ hist = [InitHist EXCEPT !.nreads = 1,
                             !.last = [NoRead EXCEPT !.r = read_sequence_number]]

NextSuccess ==
  \/ SpscReadReturn /\ hist' = HistReadReturn
  \/ MpscReadReturn /\ hist' = HistReadReturn

SpecSuccess == InitSuccess /\ [][NextSuccess]_vars

\* ------------------------------------------------------------ properties
\* observations shared by the properties below
ReadReturned == cons.pc = "idle" /\ hist.last.returned
ReadTrue == ReadReturned /\ cons.success # 0
ReadFalse == ReadReturned /\ cons.success = 0
WrittenPayloads == {hist.writes[k] : k \in 1 .. NumCalls}
TimesWritten(d) == Cardinality({k \in 1 .. NumCalls : hist.writes[k] = d})
DistinctPayloads ==
  \A j, k \in 1 .. NumCalls : j # k => hist.writes[j] # hist.writes[k]
\* the slot a producer inside write() addresses
SlotOf(p) == BitAnd(prod[p].local_sequence_number, length - 1)

\* C1: SPSC, no torn reads: the payload a read() that returns true delivers
\* equals, in all of its words, the payload passed to one single write() call.
C1_NoTornReadSpsc ==
  (discipline = "SPSC" /\ ReadTrue) => cons.ret_data \in WrittenPayloads

\* C2: MPSC, no torn reads: with two producers, checking the refcount for zero
\* once after the copy, every read() that returns true delivers the payload of
\* one single write() call.
C2_NoTornReadMpsc ==
  (discipline = "MPSC" /\ ReadTrue)
    => \E k \in 1 .. NumCalls : cons.ret_data = hist.writes[k]

\* C3: SPSC round trip: after n <= length writes on a fresh buffer with no read
\* in between, the k-th read (k <= n) returns true and delivers w_k, and the
\* (n+1)-th read returns false.
C3_RoundTrip ==
  (/\ discipline = "SPSC" /\ ~hist.mixed /\ ReadReturned
   /\ NumCalls >= 1 /\ NumCalls <= length)
  => /\ hist.nreads <= NumCalls =>
          cons.success # 0 /\ cons.ret_data = hist.writes[hist.nreads]
     /\ hist.nreads = NumCalls + 1 => cons.success = 0

\* C4: MPSC exactly-once delivery: with pairwise distinct payloads and at most
\* `length` records written, the delivered records are never more than the
\* written ones (no duplicate, no fabricated record), and once a read() that
\* began after every write() had returned reports false, every written record
\* has been delivered.
C4_ExactlyOnce ==
  (discipline = "MPSC" /\ DistinctPayloads /\ NumCalls <= length)
  => /\ \A d \in DataValues : hist.delivered[d] <= TimesWritten(d)
     /\ (ReadFalse /\ hist.last.quiet /\ hist.last.nw = NumCalls /\ Quiet)
           => \A d \in DataValues : hist.delivered[d] = TimesWritten(d)

\* C5: consumer progress: a read() called with cursor r after the write() that
\* was assigned sequence number r + 1 has returned, the producers never having
\* been more than `length` records ahead of the consumer, returns true.
C5_ConsumerProgress ==
  (ReadReturned /\ hist.last.pre /\ ~hist.overrun) => cons.success # 0

\* C6: a read() that finds the slot unwritten or stale returns false and leaves
\* the consumer cursor unchanged; a read() that returns true advances the
\* cursor by exactly 1; on a fresh buffer every read() returns false and the
\* cursor stays 0.
C6_ReadCursor ==
  [][(cons.pc = "return" /\ cons'.pc = "idle") =>
       /\ (SeqOf(cons.entry) = 0 \/ SeqOf(cons.entry) <= read_sequence_number)
            => cons'.success = 0
       /\ cons'.success = 0 => read_sequence_number' = read_sequence_number
       /\ cons'.success # 0 => read_sequence_number' = read_sequence_number + 1
       /\ NumCalls = 0 => cons'.success = 0 /\ read_sequence_number' = 0]_vars

\* a read() found a written but stale slot and returned false, cursor unchanged
C6_Witness ==
  /\ ReadFalse /\ hist.last.seq # 0 /\ hist.last.seq <= hist.last.r
  /\ read_sequence_number = hist.last.r

\* the SPSC buffer of length 2 after write(a), write(b), write(c) and only then reads
AfterThreeWrites ==
  /\ discipline = "SPSC" /\ length = 2 /\ ~hist.mixed
  /\ NumCalls = 3 /\ ReadReturned

C10_GuardAlwaysTaken ==
  (discipline = "SPSC" /\ prod[1].pc = "release")
  => buf[SlotOf(1)] = MakeEntry(prod[1].data, Inc(prod[1].local_sequence_number))

\* a read() call is in progress
Reading == cons.pc # "idle"

\* C8, as stated: under fair scheduling of every thread, every read() call
\* eventually returns.
C8_ReadReturnsAsStated == Reading ~> ~Reading

\* C8, amended: under fair scheduling of every thread, every read() call
\* eventually returns provided the write() calls eventually stop; the loop
\* repeats only when the check found the counter odd (SPSC) / non-zero (MPSC)
\* and read() leaves the loop at the first check that finds it even / zero.
C8_ReadReturns ==
  /\ (<>[]Quiet) => (Reading ~> ~Reading)
  /\ [][cons.pc = "check" =>
          LET v == version_numbers[cons.version_idx]
              mid == IF discipline = "SPSC" THEN v % 2 = 1 ELSE v # 0 IN
            /\ cons'.pc = "memcpy" => mid
            /\ ~mid => (cons'.pc = "check" \/ cons'.pc = "return")]_vars

\* the check of read() found a producer mid-write and read() repeats its copy
C8_Witness ==
  /\ cons.pc = "memcpy" /\ cons.todo = AllWords
  /\ version_numbers[cons.version_idx] # 0 /\ ~Quiet
  /\ cons.entry # MakeEntry(ZeroData, 0)

\* a CAS of producer p fails in this step
CasFails(p) == prod[p].pc = "cas" /\ prod'[p].pc = "load"

C11_GuardAlwaysTakenMpsc ==
  [][\A p \in Producers :
       (discipline = "MPSC" /\ prod[p].pc # "release" /\ prod'[p].pc = "release")
         => prod[p].pc = "memcpy"]_vars

\* C12: per-slot sequence monotonicity, both disciplines: the successive
\* values of slot[i].sequence_number are 0, i+1, i+1+length, ...: whenever the
\* stored sequence number changes, it becomes i+1 (from 0) or grows by length.
C12_SlotSequence ==
  [][\A i \in 0 .. length - 1 :
       SeqOf(buf'[i]) # SeqOf(buf[i])
         => SeqOf(buf'[i]) = (IF SeqOf(buf[i]) = 0 THEN i + 1
                              ELSE SeqOf(buf[i]) + length)]_vars

\* producer p has incremented counter i and not yet decremented it
Holds(p, i) ==
  /\ prod[p].version_number_ptr = i
  /\ prod[p].pc \notin {"idle", "fetch_add"}

\* C13: MPSC refcount invariant: every version counter equals the number of
\* producers that have incremented it and not yet decremented it (so it never
\* drops below zero), and while a producer is between its winning CAS on seq
\* and its final decrement, counter[seq mod G] is at least 1.
C13_Refcount ==
  discipline = "MPSC" =>
    /\ \A i \in 0 .. version_granularity - 1 :
         version_numbers[i] = Cardinality({p \in Producers : Holds(p, i)})
    /\ \A p \in Producers :
         prod[p].pc \in {"memcpy", "release"} =>
           version_numbers[BitAnd(prod[p].local_sequence_number,
                                  version_granularity - 1)] >= 1

\* a producer that retried into region 1 holds its claim there while the other
\* producer still holds region 0
C13_Witness ==
  /\ discipline = "MPSC" /\ version_granularity = 2
  /\ \E p \in Producers :
       /\ prod[p].pc \in {"memcpy", "release"}
       /\ prod[p].local_sequence_number = 1
  /\ version_numbers[0] = 1 /\ version_numbers[1] = 1

\* the region of the sequence number producer p loaded or claimed
RegionOf(p) == BitAnd(prod[p].local_sequence_number, version_granularity - 1)

\* C14: MPSC counter correction: a retry that lands in another region
\* decrements the counter it held and then increments the new one, a retry in
\* the same region touches no counter, the final release decrements the counter
\* last incremented, which is the counter of region (claimed seq mod G); hence
\* whenever no write() call is in progress every version counter is 0.
C14_CounterCorrection ==
  /\ []((discipline = "MPSC" /\ Quiet)
          => \A i \in 0 .. version_granularity - 1 : version_numbers[i] = 0)
  /\ [][\A p \in Producers :
          /\ (prod[p].pc = "load" /\ prod'[p].pc = "cas")
               => UNCHANGED version_numbers
          /\ (prod[p].pc = "load" /\ prod'[p].pc = "fetch_sub")
               => /\ UNCHANGED version_numbers
                  /\ prod[p].version_number_ptr # nullptr
                  /\ prod[p].version_number_ptr # prod'[p].version_idx
          /\ (prod[p].pc = "fetch_sub" /\ prod'[p].pc # "fetch_sub")
               => /\ prod'[p].pc = "fetch_add"
                  /\ version_numbers' = [version_numbers EXCEPT
                        ![prod[p].version_number_ptr] = @ - 1]
          /\ (prod[p].pc = "fetch_add" /\ prod'[p].pc # "fetch_add")
               => /\ version_numbers' = [version_numbers EXCEPT ![RegionOf(p)] = @ + 1]
                  /\ prod'[p].version_number_ptr = RegionOf(p)
          /\ (prod[p].pc = "release" /\ prod'[p].pc = "idle" /\ discipline = "MPSC")
               => /\ prod[p].version_number_ptr = RegionOf(p)
                  /\ version_numbers' = [version_numbers EXCEPT ![RegionOf(p)] = @ - 1]]_vars

\* a producer whose retry landed in region 1 has just decremented counter 0,
\* which it held, and is about to increment counter 1
C14_Witness ==
  \E p \in Producers :
    /\ prod[p].pc = "fetch_add"
    /\ prod[p].version_number_ptr = 0
    /\ prod[p].version_idx = 1

\* the number of write() calls that have returned and whose region was i (the
\* k-th call of the single producer is assigned sequence number k, cursor k-1)
CompletedIn(i) ==
  Cardinality({k \in hist.done : BitAnd(k - 1, version_granularity - 1) = i})

\* C15: SPSC version parity: every counter is even whenever the producer is
\* not inside write(); during a write() call the counter of the region of the
\* write cursor at the call is odd from the first increment to the second and
\* every other counter is even; each completed write() has advanced exactly
\* one counter, that of its region, by exactly 2.
C15_VersionParity ==
  discipline = "SPSC" =>
    /\ prod[1].pc = "entry" =>
         prod[1].version_idx = BitAnd(write_sequence_number, version_granularity - 1)
    /\ prod[1].pc \in {"memcpy", "release"} => prod[1].version_idx = RegionOf(1)
    /\ \A i \in 0 .. version_granularity - 1 :
         /\ version_numbers[i] % 2 =
              (IF prod[1].pc # "idle" /\ prod[1].version_idx = i THEN 1 ELSE 0)
         /\ version_numbers[i] =
              (2 * CompletedIn(i) + (version_numbers[i] % 2)) % Mod

\* the third write() is copying: the counter of its region, in which one write()
\* has completed, is odd; the counter of the other region is even
C15_Witness ==
  /\ discipline = "SPSC" /\ version_granularity = 2
  /\ prod[1].pc = "memcpy"
  /\ version_numbers[0] = 3 /\ version_numbers[1] = 2

\* producer p has won its CAS and not yet returned
Claimed(p) == prod[p].pc \in {"memcpy", "release"}

\* C16: MPSC sequence ownership: the producer cursor never decreases and grows
\* by exactly 1 per winning CAS, the CAS of a producer that had loaded the
\* current cursor; the cursor equals the number of sequence numbers won, so no
\* two write() calls win the same one and two producers never hold entries
\* with the same sequence number; when no write() is in progress the cursor
\* equals the number of completed write() calls.
C16_SequenceOwnership ==
  /\ [](discipline = "MPSC" =>
          /\ Len(hist.seqs) = write_sequence_number
          /\ \A j, k \in 1 .. Len(hist.seqs) : j # k => hist.seqs[j] # hist.seqs[k]
          /\ \A p, q \in Producers :
               (p # q /\ Claimed(p) /\ Claimed(q))
                 => /\ prod[p].local_sequence_number # prod[q].local_sequence_number
                    /\ SeqOf(prod[p].entry) # SeqOf(prod[q].entry)
          /\ Quiet => write_sequence_number = Cardinality(hist.done))
  /\ [][(discipline = "MPSC" /\ write_sequence_number' # write_sequence_number)
          => /\ write_sequence_number' = write_sequence_number + 1
             /\ \E p \in Producers :
                  /\ prod[p].pc = "cas" /\ Claimed(p)'
                  /\ prod[p].local_sequence_number = write_sequence_number]_vars

\* both producers have won a sequence number and neither has returned
C16_Witness ==
  /\ discipline = "MPSC" /\ write_sequence_number = 2
  /\ \A p \in Producers : Claimed(p)

\* C17: ownership of state, both disciplines: a step of read() leaves every
\* version counter, every slot and the producer cursor unchanged; the consumer
\* cursor changes only in the return step of read(); a step of write() leaves
\* the consumer cursor unchanged.
C17_Ownership ==
  [][/\ cons' # cons => UNCHANGED <<version_numbers, buf, write_sequence_number, prod>>
     /\ prod' # prod => UNCHANGED <<read_sequence_number, cons>>
     /\ read_sequence_number' # read_sequence_number
          => cons.pc = "return" /\ cons'.pc = "idle"]_vars

\* a read() has returned true and advanced the consumer cursor while a write()
\* is copying into a slot
C17_Witness ==
  /\ cons.pc = "idle" /\ cons.success # 0 /\ read_sequence_number >= 1
  /\ \E p \in Producers : prod[p].pc = "memcpy" /\ prod[p].todo # AllWords

C19_CursorOrder ==
  /\ read_sequence_number <= write_sequence_number
  /\ \A i \in 0 .. length - 1 : SeqOf(buf[i]) <= write_sequence_number
  /\ cons.pc = "return" => SeqOf(cons.entry) <= write_sequence_number

\* after a consumer overrun the consumer has caught up with the producers
C19_Witness ==
  /\ hist.overrun /\ write_sequence_number >= 2
  /\ read_sequence_number = write_sequence_number

\* the version counter a producer inside write() has incremented
CounterOf(p) ==
  IF discipline = "SPSC" THEN prod[p].version_idx ELSE prod[p].version_number_ptr

\* C20: each slot index i is guarded by the fixed version counter (i mod G):
\* a write() copying into slot i holds that counter and a read() copying from
\* slot i checks that counter, for every valid G; slot i only ever holds
\* sequence number 0 or a value congruent to i+1 modulo length, so a read()
\* that returns true at cursor r copied a sequence number congruent to r+1.
C20_SlotCounter ==
  /\ \A p \in Producers :
       prod[p].pc = "memcpy" => CounterOf(p) = SlotOf(p) % version_granularity
  /\ cons.pc \in {"memcpy", "check"} =>
       cons.version_idx = (read_sequence_number % length) % version_granularity
  /\ \A i \in 0 .. length - 1 :
       SeqOf(buf[i]) = 0 \/ SeqOf(buf[i]) % length = (i + 1) % length
  /\ ReadTrue => hist.last.seq % length = (hist.last.r + 1) % length

\* a write() is copying into slot 2 of a buffer with two regions, holding
\* counter 0
C20_Witness ==
  /\ length = 4 /\ version_granularity = 2
  /\ \E p \in Producers :
       /\ prod[p].pc = "memcpy" /\ prod[p].todo # AllWords
       /\ SlotOf(p) = 2 /\ CounterOf(p) = 0

====
